---- MODULE Spec2Model ----
(***************************************************************************)
(* MinMaxAgent (src/minmax_agent.py): the four search variants minmax,     *)
(* fhabminmax, fsabminmax and blminmax, the two stubs that delegate to     *)
(* blminmax, and the dispatch of find_best_move, as a machine with an      *)
(* explicit call stack.  A game state is the path of positions that leads  *)
(* to it from the root (get_children builds a fresh object per move), so   *)
(* the search tree of a cyclic game is the unfolding of its graph.         *)
(***************************************************************************)
EXTENDS Integers, Sequences, FiniteSets

VARIABLES H_0, get_children, is_final, engine,
          status, entry, stack, ret, expanded, evaluated, called

vars == <<H_0, get_children, is_final, engine,
          status, entry, stack, ret, expanded, evaluated, called>>

agent == <<H_0, get_children, is_final, engine>>

(* ------------------------------ bounds -------------------------------- *)

\* number of positions of the game graph
NPos == 4
\* largest depth handed to a search (the smallest is -1)
MaxDepth == 2
\* largest branch_limit handed to a direct call of blminmax
MaxBranchLimit == 2
\* number of frames the interpreter allows before it raises RecursionError
RecursionLimit == 4

(* --------------------------- program values --------------------------- *)

\* float('-inf') and float('inf'): below and above every other score
NegInf == -1000
PosInf == 1000
\* the bool True, which Python compares and slices as the integer 1
PyTrue == 1
\* the default of blminmax's branch_limit parameter
DefaultBranchLimit == 5
\* Python's None; a state is a non-empty path, so the empty path is free
None == <<>>

Algorithms == {"min_max", "fail_hard_alpha_beta", "fail_soft_alpha_beta",
               "branching_limit", "pred_blminmax", "multi_input_pred_blminmax"}

Pos == 1..NPos
HVals == {NegInf, 0, 2, PosInf}
Depths == (-1)..MaxDepth
Root == <<1>>

Max(a, b) == IF a >= b THEN a ELSE b
Min(a, b) == IF a <= b THEN a ELSE b
Range(a, b) == [k \in 1..(b - a + 1) |-> a + k - 1]
Last(s) == s[Len(s)]
SeqSet(s) == {s[k] : k \in 1..Len(s)}

(* ------------------- the collaborators' games ------------------------- *)
\* successor functions handed to the constructor: a fan under the root, a
\* fork under the root's only child, a binary heap, and a ring where play
\* never ends (every position can move on, or back to position 1)
Fan == [p \in Pos |-> IF p = 1 THEN Range(2, NPos) ELSE <<>>]
Fork == [p \in Pos |-> IF p = 1 THEN <<2>>
                        ELSE IF p = 2 THEN Range(3, NPos) ELSE <<>>]
Heap == [p \in Pos |-> IF 2 * p + 1 <= NPos THEN <<2 * p, 2 * p + 1>>
                        ELSE IF 2 * p <= NPos THEN <<2 * p>> ELSE <<>>]
Ring == [p \in Pos |-> IF p < NPos THEN <<p + 1, 1>> ELSE <<1>>]
Games == {Fan, Fork, Heap, Ring}
FinalSets == {{}, {2, NPos}}

(* ------------------------------ frames -------------------------------- *)

NoRet == [fn |-> "none", state |-> None, L |-> 0, maximizing_player |-> TRUE,
          branch_limit |-> 0, all_children |-> <<>>, children |-> <<>>,
          vals |-> <<>>, best |-> <<>>, value |-> 0, chosen |-> None]

\* a call of fn(state, L, ...) that has not run its first statement yet
Frame(fn, state, L, alpha, beta, branch_limit, maximizing_player) ==
  [fn |-> fn, state |-> state, L |-> L, alpha |-> alpha, beta |-> beta,
   branch_limit |-> branch_limit, maximizing_player |-> maximizing_player,
   pc |-> "entry", all_children |-> <<>>, children |-> <<>>, i |-> 1,
   value |-> 0, best |-> <<>>, best_move_state |-> None, stop |-> FALSE,
   vals |-> <<>>]

Top == stack[Len(stack)]
Running == status = "running" /\ stack # <<>>

(* --------------------------- pure helpers ----------------------------- *)

\* seq[:k] of Python: the first k elements, or all but the last -k
PySlice(seq, k) ==
  IF k >= 0 THEN SubSeq(seq, 1, Min(k, Len(seq)))
  ELSE SubSeq(seq, 1, Max(Len(seq) + k, 0))

\* the sort without reverse=True: ascending and stable
SortAscending(seq) ==
  LET before(j, k) == \/ H_0[seq[j]] < H_0[seq[k]]
                      \/ H_0[seq[j]] = H_0[seq[k]] /\ j < k
      rank(k) == Cardinality({j \in 1..Len(seq) : before(j, k)}) + 1
  IN [r \in 1..Len(seq) |-> seq[CHOOSE k \in 1..Len(seq) : rank(k) = r]]

\* list.sort(key=H_0, reverse=True): descending and stable, so equal keys
\* keep the order get_children gave them
SortDescending(seq) ==
  LET before(j, k) == \/ H_0[seq[j]] > H_0[seq[k]]
                      \/ H_0[seq[j]] = H_0[seq[k]] /\ j < k
      rank(k) == Cardinality({j \in 1..Len(seq) : before(j, k)}) + 1
  IN [r \in 1..Len(seq) |-> seq[CHOOSE k \in 1..Len(seq) : rank(k) = r]]

\* promising_children with the slice one short
promising_children_one_short(all_children, branch_limit) ==
  PySlice(SortDescending(all_children), branch_limit - 1)

\* blminmax, the ranking step: the branch_limit statically best children
promising_children(all_children, branch_limit) ==
  PySlice(SortDescending(all_children), branch_limit)

\* base_case without the is_final test
base_case_depth_only(f) == f.L = 0

\* the test every variant starts with: L == 0 or self.is_final(state)
base_case(f) == f.L = 0 \/ Last(f.state) \in is_final

\* best_value = float('-inf') if maximizing_player else float('inf')
initial_value(maximizing_player) == IF maximizing_player THEN NegInf ELSE PosInf

(* ---------------- the loop body after a child's return ---------------- *)

\* minmax's loop body keeping only the first best child (no tie list)
minmax_update_first_only(p, child, child_value) ==
  IF p.maximizing_player
  THEN IF child_value > p.value \/ p.best = <<>>
       THEN [p EXCEPT !.value = child_value, !.best = <<child>>]
       ELSE p
  ELSE IF child_value < p.value \/ p.best = <<>>
       THEN [p EXCEPT !.value = child_value, !.best = <<child>>]
       ELSE p

minmax_update(p, child, child_value) ==
  IF p.maximizing_player
  THEN IF child_value > p.value
       THEN [p EXCEPT !.value = child_value, !.best = <<child>>]
       ELSE IF child_value = p.value
       THEN [p EXCEPT !.best = Append(p.best, child)]
       ELSE p
  ELSE IF child_value < p.value
       THEN [p EXCEPT !.value = child_value, !.best = <<child>>]
       ELSE IF child_value = p.value
       THEN [p EXCEPT !.best = Append(p.best, child)]
       ELSE p

blminmax_update(p, child, child_value) ==
  IF p.maximizing_player
  THEN IF child_value > p.value
       THEN [p EXCEPT !.value = child_value, !.best = <<child>>]
       ELSE IF child_value = p.value
       THEN [p EXCEPT !.best = Append(p.best, child)]
       ELSE p
  ELSE IF child_value < p.value
       THEN [p EXCEPT !.value = child_value, !.best = <<child>>]
       ELSE IF child_value = p.value
       THEN [p EXCEPT !.best = Append(p.best, child)]
       ELSE p

fhabminmax_update(p, child, child_value) ==
  IF p.maximizing_player
  THEN LET better == child_value > p.value
           value == IF better THEN child_value ELSE p.value
           alpha == Max(p.alpha, value)
       IN [p EXCEPT !.value = value,
                    !.best_move_state =
                       IF better THEN Append(p.state, child) ELSE @,
                    !.alpha = alpha,
                    !.stop = (alpha >= p.beta)]
  ELSE LET better == child_value < p.value
           value == IF better THEN child_value ELSE p.value
           beta == Min(p.beta, value)
       IN [p EXCEPT !.value = value,
                    !.best_move_state =
                       IF better THEN Append(p.state, child) ELSE @,
                    !.beta = beta,
                    !.stop = (beta <= p.alpha)]

fsabminmax_update(p, child, child_value) ==
  IF p.maximizing_player
  THEN LET better == child_value > p.value
           value == IF better THEN child_value ELSE p.value
           q == [p EXCEPT !.value = value,
                          !.best_move_state =
                             IF better THEN Append(p.state, child) ELSE @]
       IN IF value >= p.beta THEN [q EXCEPT !.stop = TRUE]
          ELSE [q EXCEPT !.alpha = Max(p.alpha, value)]
  ELSE LET better == child_value < p.value
           value == IF better THEN child_value ELSE p.value
           q == [p EXCEPT !.value = value,
                          !.best_move_state =
                             IF better THEN Append(p.state, child) ELSE @]
       IN IF value <= p.alpha THEN [q EXCEPT !.stop = TRUE]
          ELSE [q EXCEPT !.beta = Min(p.beta, value)]

\* the caller's loop body for the child that has just returned child_value
Update(p, child, child_value) ==
  LET q == CASE p.fn = "minmax" -> minmax_update(p, child, child_value)
             [] p.fn = "fhabminmax" -> fhabminmax_update(p, child, child_value)
             [] p.fn = "fsabminmax" -> fsabminmax_update(p, child, child_value)
             [] p.fn = "blminmax" -> blminmax_update(p, child, child_value)
  IN [q EXCEPT !.i = p.i + 1, !.vals = Append(p.vals, child_value)]

(* ----------------------- the recursive calls -------------------------- *)

\* minmax's recursive call handing on L instead of L - 1
minmax_call_same_depth(p, child) ==
  Frame("minmax", Append(p.state, child), p.L, NegInf, PosInf, 0,
        ~p.maximizing_player)

minmax_call(p, child) ==
  Frame("minmax", Append(p.state, child), p.L - 1, NegInf, PosInf, 0,
        ~p.maximizing_player)

\* fhabminmax's recursive call with alpha and beta in each other's place
fhabminmax_call_swapped(p, child) ==
  Frame("fhabminmax", Append(p.state, child), p.L - 1, p.beta, p.alpha, 0,
        ~p.maximizing_player)

fhabminmax_call(p, child) ==
  Frame("fhabminmax", Append(p.state, child), p.L - 1, p.alpha, p.beta, 0,
        ~p.maximizing_player)

fsabminmax_call(p, child) ==
  Frame("fsabminmax", Append(p.state, child), p.L - 1, p.alpha, p.beta, 0,
        ~p.maximizing_player)

blminmax_call(p, child) ==
  Frame("blminmax", Append(p.state, child), p.L - 1, NegInf, PosInf,
        p.branch_limit, ~p.maximizing_player)

RecursiveCall(p, child) ==
  CASE p.fn = "minmax" -> minmax_call(p, child)
    [] p.fn = "fhabminmax" -> fhabminmax_call(p, child)
    [] p.fn = "fsabminmax" -> fsabminmax_call(p, child)
    [] p.fn = "blminmax" -> blminmax_call(p, child)

(* ------------------------ the public entries -------------------------- *)

\* the stubs print their fallback notice and return blminmax(...)
pred_blminmax(state, L, branch_limit, maximizing_player) ==
  Frame("blminmax", state, L, NegInf, PosInf, branch_limit, maximizing_player)

mi_pred_blminmax(state, L, branch_limit, maximizing_player) ==
  Frame("blminmax", state, L, NegInf, PosInf, branch_limit, maximizing_player)

\* self.engine(current_state, depth, True): the third positional argument
\* is maximizing_player of minmax, alpha of the two alpha-beta variants and
\* branch_limit of blminmax and the stubs; the others keep their defaults
find_best_move(current_state, depth) ==
  CASE engine = "min_max" ->
         Frame("minmax", current_state, depth, NegInf, PosInf, 0, TRUE)
    [] engine = "fail_hard_alpha_beta" ->
         Frame("fhabminmax", current_state, depth, PyTrue, PosInf, 0, TRUE)
    [] engine = "fail_soft_alpha_beta" ->
         Frame("fsabminmax", current_state, depth, PyTrue, PosInf, 0, TRUE)
    [] engine = "branching_limit" ->
         Frame("blminmax", current_state, depth, NegInf, PosInf, PyTrue, TRUE)
    [] engine = "pred_blminmax" ->
         pred_blminmax(current_state, depth, PyTrue, TRUE)
    [] engine = "multi_input_pred_blminmax" ->
         mi_pred_blminmax(current_state, depth, PyTrue, TRUE)

(* ------------------------------ actions ------------------------------- *)

\* the heuristics handed to the constructor: every score on every position
\* but the root's, which is the neutral 0
Heuristics == {h \in [Pos -> HVals] : h[Last(Root)] = 0}

Init ==
  /\ H_0 \in Heuristics
  /\ get_children \in Games
  /\ is_final \in FinalSets
  /\ engine \in Algorithms
  /\ status = "idle"
  /\ entry = [method |-> "none", depth |-> 0, branch_limit |-> 0]
  /\ stack = <<>>
  /\ ret = NoRet
  /\ expanded = {}
  /\ evaluated = {}
  /\ called = {}

Begin(method, depth, branch_limit, frame) ==
  /\ status = "idle"
  /\ status' = "running"
  /\ entry' = [method |-> method, depth |-> depth, branch_limit |-> branch_limit]
  /\ stack' = <<frame>>
  /\ called' = {frame.state}
  /\ UNCHANGED <<agent, ret, expanded, evaluated>>

\* agent.find_best_move(root, depth)
FindBestMove ==
  \E depth \in Depths :
    Begin("find_best_move", depth, 0, find_best_move(Root, depth))

\* agent.blminmax(root, depth, branch_limit, True)
CallBlminmax ==
  \E depth \in Depths, branch_limit \in 1..MaxBranchLimit :
    /\ engine = "branching_limit"
    /\ Begin("blminmax", depth, branch_limit,
             Frame("blminmax", Root, depth, NegInf, PosInf, branch_limit, TRUE))

\* agent.fhabminmax(root, depth): alpha, beta and maximizing_player default
CallFhabminmax ==
  \E depth \in Depths :
    /\ engine = "fail_hard_alpha_beta"
    /\ Begin("fhabminmax", depth, 0,
             Frame("fhabminmax", Root, depth, NegInf, PosInf, 0, TRUE))

\* agent.fsabminmax(root, depth): alpha, beta and maximizing_player default
CallFsabminmax ==
  \E depth \in Depths :
    /\ engine = "fail_soft_alpha_beta"
    /\ Begin("fsabminmax", depth, 0,
             Frame("fsabminmax", Root, depth, NegInf, PosInf, 0, TRUE))

\* `return value, chosen` of the top frame f: the frame is popped and the
\* caller runs its loop body on the value (it drops the child: `child_value, _`)
Deliver(f, value, chosen) ==
  LET rest == SubSeq(stack, 1, Len(stack) - 1) IN
  /\ ret' = [fn |-> f.fn, state |-> f.state, L |-> f.L,
             maximizing_player |-> f.maximizing_player,
             branch_limit |-> f.branch_limit,
             all_children |-> f.all_children, children |-> f.children,
             vals |-> f.vals, best |-> f.best,
             value |-> value, chosen |-> chosen]
  /\ IF rest = <<>>
     THEN /\ stack' = <<>>
          /\ status' = "returned"
     ELSE /\ stack' = [rest EXCEPT ![Len(rest)] =
                         Update(rest[Len(rest)], Last(f.state), value)]
          /\ UNCHANGED status

\* if L == 0 or self.is_final(state): return self.H_0(state), state
ReturnBase ==
  /\ Running
  /\ Top.pc = "entry"
  /\ base_case(Top)
  /\ evaluated' = evaluated \cup {Top.state}
  /\ Deliver(Top, H_0[Last(Top.state)], Top.state)
  /\ UNCHANGED <<agent, entry, expanded, called>>

\* children = self.get_children(state); if not children: return H_0, state
ReturnNoChildren ==
  /\ Running
  /\ Top.pc = "entry"
  /\ ~base_case(Top)
  /\ get_children[Last(Top.state)] = <<>>
  /\ expanded' = expanded \cup {Top.state}
  /\ evaluated' = evaluated \cup {Top.state}
  /\ Deliver(Top, H_0[Last(Top.state)], Top.state)
  /\ UNCHANGED <<agent, entry, called>>

\* the statements between get_children and the loop: blminmax ranks the
\* children by H_0 and keeps the promising ones; the others keep them all
Expand ==
  /\ Running
  /\ Top.pc = "entry"
  /\ ~base_case(Top)
  /\ LET all_children == get_children[Last(Top.state)] IN
     /\ all_children # <<>>
     /\ expanded' = expanded \cup {Top.state}
     /\ evaluated' = IF Top.fn = "blminmax"
                     THEN evaluated \cup
                          {Append(Top.state, c) : c \in SeqSet(all_children)}
                     ELSE evaluated
     /\ stack' = [stack EXCEPT ![Len(stack)] =
          [@ EXCEPT !.pc = "loop",
                    !.all_children = all_children,
                    !.children =
                       IF Top.fn = "blminmax"
                       THEN promising_children(all_children, Top.branch_limit)
                       ELSE all_children,
                    !.value = initial_value(Top.maximizing_player)]]
  /\ UNCHANGED <<agent, status, entry, ret, called>>

\* the loop takes its next child and calls itself on it
Recurse ==
  /\ Running
  /\ Top.pc = "loop"
  /\ ~Top.stop
  /\ Top.i <= Len(Top.children)
  /\ Len(stack) < RecursionLimit
  /\ LET callee == RecursiveCall(Top, Top.children[Top.i]) IN
     /\ stack' = Append(stack, callee)
     /\ called' = called \cup {callee.state}
  /\ UNCHANGED <<agent, status, entry, ret, expanded, evaluated>>

\* the interpreter refuses one more frame: RecursionError unwinds the search
RecursionError ==
  /\ Running
  /\ Top.pc = "loop"
  /\ ~Top.stop
  /\ Top.i <= Len(Top.children)
  /\ Len(stack) >= RecursionLimit
  /\ status' = "RecursionError"
  /\ stack' = <<>>
  /\ UNCHANGED <<agent, entry, ret, expanded, evaluated, called>>

\* the loop is over (exhausted, or cut by break / the early return)
ReturnBest ==
  /\ Running
  /\ Top.pc = "loop"
  /\ Top.stop \/ Top.i > Len(Top.children)
  /\ \/ /\ Top.fn \in {"minmax", "blminmax"}
        /\ Top.best # <<>>
        /\ \E c \in SeqSet(Top.best) :
              Deliver(Top, Top.value, Append(Top.state, c))
     \/ /\ Top.fn \in {"minmax", "blminmax"}
        /\ Top.best = <<>>
        /\ Deliver(Top, Top.value, None)
     \/ /\ Top.fn \in {"fhabminmax", "fsabminmax"}
        /\ Deliver(Top, Top.value, Top.best_move_state)
  /\ UNCHANGED <<agent, entry, expanded, evaluated, called>>

Next ==
  \/ FindBestMove
  \/ CallBlminmax
  \/ CallFhabminmax
  \/ CallFsabminmax
  \/ ReturnBase
  \/ ReturnNoChildren
  \/ Expand
  \/ Recurse
  \/ RecursionError
  \/ ReturnBest

Spec == Init /\ [][Next]_vars

TypeOK ==
  /\ status \in {"idle", "running", "returned", "RecursionError"}
  /\ Len(stack) <= RecursionLimit

(* ------------- minmax as a function of position and depth ------------- *)

\* the value minmax(state, L, maximizing_player) returns, for L >= 0: the
\* same statements, folded over the children in order
RECURSIVE minmax_value(_, _, _)
minmax_value(pos, L, maximizing_player) ==
  IF L = 0 \/ pos \in is_final THEN H_0[pos]
  ELSE LET children == get_children[pos]
           child_value(k) == minmax_value(children[k], L - 1, ~maximizing_player)
           loop[k \in 0..Len(children)] ==
             IF k = 0 THEN initial_value(maximizing_player)
             ELSE IF maximizing_player
                  THEN (IF child_value(k) > loop[k - 1]
                        THEN child_value(k) ELSE loop[k - 1])
                  ELSE (IF child_value(k) < loop[k - 1]
                        THEN child_value(k) ELSE loop[k - 1])
       IN IF children = <<>> THEN H_0[pos] ELSE loop[Len(children)]

\* the states minmax(state, L, maximizing_player) can return as its second
\* component: the state itself at the two early returns, otherwise every
\* child that random.choice can draw from best_children_states
minmax_choices(state, L, maximizing_player) ==
  LET pos == Last(state)
      children == get_children[pos]
  IN IF L = 0 \/ pos \in is_final \/ children = <<>> THEN {state}
     ELSE {Append(state, children[k]) : k \in
             {j \in 1..Len(children) :
                minmax_value(children[j], L - 1, ~maximizing_player)
                  = minmax_value(pos, L, maximizing_player)}}

(* ------------------------- reading a return --------------------------- *)

IsPrefix(a, b) == Len(a) <= Len(b) /\ SubSeq(b, 1, Len(a)) = a
Returned == ret.fn # "none"
RetPos == Last(ret.state)
RetBase == ret.L = 0 \/ RetPos \in is_final
\* the call got past both early returns and ran its loop
RetSearched == Returned /\ ~RetBase /\ get_children[RetPos] # <<>>
Successors(state) ==
  {Append(state, c) : c \in SeqSet(get_children[Last(state)])}
\* what the returning call could have handed back as its chosen child
Possible(r) ==
  IF r.all_children = <<>> \/ r.fn \in {"fhabminmax", "fsabminmax"}
  THEN {r.chosen}
  ELSE IF r.best = <<>> THEN {None}
  ELSE {Append(r.state, c) : c \in SeqSet(r.best)}

(* ------------------------------- claims ------------------------------- *)

\* C1: find_best_move(root, depth), depth >= 0, returns the same root value
\* whether the agent was built with MIN_MAX, FAIL_HARD_ALPHA_BETA or
\* FAIL_SOFT_ALPHA_BETA: the value of plain minmax on that tree
C1_SameRootValue ==
  (/\ status = "returned"
   /\ entry.method = "find_best_move"
   /\ entry.depth >= 0
   /\ engine \in {"min_max", "fail_hard_alpha_beta", "fail_soft_alpha_beta"})
  => ret.value = minmax_value(Last(Root), entry.depth, TRUE)

\* C2: a call with L = 0 or on a final state returns (H_0(state), state),
\* never calls get_children on the state and makes no recursive call
C2_BaseCaseNoExpansion ==
  (Returned /\ RetBase)
  => /\ ret.value = H_0[RetPos]
     /\ ret.chosen = ret.state
     /\ ret.state \notin expanded
     /\ \A n \in called \cup expanded \cup evaluated :
           IsPrefix(ret.state, n) => n = ret.state

\* C2's case: a stub's search reaches a final state that has successors
\* while depth is left, and returns from it
C2_Witness ==
  /\ engine = "pred_blminmax"
  /\ Returned
  /\ ret.L >= 1
  /\ RetPos \in is_final
  /\ get_children[RetPos] # <<>>
  /\ ret.chosen = ret.state

\* C3: a call with depth left on a non-final state that has no successors
\* returns (H_0(state), none)
C3_NoSuccessorsReturnsNone ==
  (Returned /\ ret.L >= 1 /\ ~RetBase /\ get_children[RetPos] = <<>>)
  => /\ ret.value = H_0[RetPos]
     /\ ret.chosen = None

\* C4: a call that is no base case (depth >= 1, state not final, at least
\* one successor) returns one of get_children(state) as its chosen child,
\* whatever the heuristic values, the two sentinels included
C4_ChosenIsSuccessor ==
  (RetSearched /\ ret.L >= 1) => ret.chosen \in Successors(ret.state)

\* C5: through find_best_move on an agent built with BRANCHING_LIMIT the
\* branch limit in effect at every node is the default 5: a node with at
\* most 5 successors has all of them recursed into, one with more has 5
C5_DefaultBranchLimitInEffect ==
  (/\ engine = "branching_limit"
   /\ entry.method = "find_best_move"
   /\ entry.depth >= 0)
  => \A k \in 1..Len(stack) :
        stack[k].pc = "loop"
        => Len(stack[k].children)
             = Min(DefaultBranchLimit, Len(stack[k].all_children))

\* branch_limit is at least the number of successors of every node visited
LimitCovers ==
  \A n \in expanded : Len(get_children[Last(n)]) <= entry.branch_limit

\* C6: blminmax(root, depth, branch_limit, True) with branch_limit >= the
\* number of successors of every node it visits returns the root value of
\* minmax(root, depth, True), and can return exactly the children minmax can
C6_BlminmaxEqualsMinmax ==
  (/\ status = "returned"
   /\ entry.method = "blminmax"
   /\ entry.depth >= 0
   /\ LimitCovers)
  => /\ ret.value = minmax_value(Last(Root), entry.depth, TRUE)
     /\ Possible(ret) = minmax_choices(Root, entry.depth, TRUE)
     /\ ret.chosen \in Possible(ret)

\* C6's case: a depth-2 search whose limit covers a root with two tied
\* best successors
C6_Witness ==
  /\ status = "returned"
  /\ entry.method = "blminmax"
  /\ entry.depth = 2
  /\ LimitCovers
  /\ Len(ret.all_children) >= 2
  /\ Len(ret.best) >= 2
  /\ \E n \in expanded : Len(n) = 2

BestOf(vals, maximizing_player) ==
  CHOOSE v \in SeqSet(vals) :
    \A w \in SeqSet(vals) : IF maximizing_player THEN v >= w ELSE v <= w

\* the children of a call whose recursive value is the best one
TiedBest(state, children, vals, maximizing_player) ==
  {Append(state, children[k]) : k \in
     {j \in 1..Len(children) : vals[j] = BestOf(vals, maximizing_player)}}

\* C7: a minmax call that ran its loop returns the best of its children's
\* values and one of the children tied for it; at the point of return every
\* tied-best child can be the one returned and no other child can
C7_TieBreakExact ==
  /\ (RetSearched /\ ret.fn = "minmax")
     => /\ Len(ret.vals) = Len(ret.children)
        /\ ret.value = BestOf(ret.vals, ret.maximizing_player)
        /\ Possible(ret) = TiedBest(ret.state, ret.children, ret.vals,
                                    ret.maximizing_player)
        /\ ret.chosen \in Possible(ret)
  /\ (/\ Running
      /\ Top.fn = "minmax"
      /\ Top.pc = "loop"
      /\ Top.i > Len(Top.children))
     => \A c \in Successors(Top.state) :
           (ENABLED (ReturnBest /\ ret'.chosen = c))
           <=> c \in TiedBest(Top.state, Top.children, Top.vals,
                              Top.maximizing_player)

\* C7's case: depth 1, a maximizing root whose three children are worth
\* 0, 2 and 2 (one strictly worse, two tied): value 2, a tied child returned
C7_Witness ==
  /\ status = "returned"
  /\ ret.fn = "minmax"
  /\ ret.state = Root
  /\ ret.L = 1
  /\ ret.maximizing_player
  /\ ret.vals = <<0, 2, 2>>
  /\ ret.value = 2
  /\ ret.chosen = Append(Root, ret.children[3])

\* the successors a node's search left out: get_children(state) less those
\* it recursed into
LeftOut(state, retained) == SeqSet(get_children[Last(state)]) \ retained
Under(state) == {n \in called \cup expanded : IsPrefix(state, n)}

\* C8: a blminmax call that ran its loop (branch_limit >= 1) has ranked all
\* successors by H_0, descending at maximizing and minimizing nodes alike,
\* recursed into the first branch_limit of them and no other, and returns
\* one of those; a successor that was left out is never called or expanded,
\* nor is any state below it
C8_OnlyTopRankedExplored ==
  /\ (RetSearched /\ ret.fn = "blminmax" /\ ret.branch_limit >= 1)
     => LET retained == SeqSet(ret.children) IN
        /\ retained \subseteq SeqSet(ret.all_children)
        /\ Len(ret.children) = Min(ret.branch_limit, Len(ret.all_children))
        /\ Cardinality(retained) = Len(ret.children)
        /\ \A k \in 1..(Len(ret.children) - 1) :
              H_0[ret.children[k]] >= H_0[ret.children[k + 1]]
        /\ \A r \in retained, u \in LeftOut(ret.state, retained) :
              H_0[r] >= H_0[u]
        /\ Len(ret.vals) = Len(ret.children)
        /\ \A c \in SeqSet(ret.all_children) :
              Append(ret.state, c) \in called <=> c \in retained
        /\ ret.chosen \in {Append(ret.state, r) : r \in retained}
        /\ \A u \in LeftOut(ret.state, retained) :
              Under(Append(ret.state, u)) = {}
  /\ (status = "returned" /\ entry.method = "blminmax")
     => \A n \in expanded :
          LET retained == {c \in SeqSet(get_children[Last(n)]) :
                             Append(n, c) \in called} IN
          /\ Cardinality(retained)
               = Min(entry.branch_limit, Len(get_children[Last(n)]))
          /\ \A r \in retained, u \in LeftOut(n, retained) :
                /\ H_0[r] >= H_0[u]
                /\ Under(Append(n, u)) = {}

\* C8's case: depth 2, branch_limit 1, the root's children A (static 0) and
\* B (static 2): only B is searched and B is returned, although minmax
\* through A finds another root value
C8_Witness ==
  /\ status = "returned"
  /\ entry.method = "blminmax"
  /\ entry.depth = 2
  /\ entry.branch_limit = 1
  /\ ret.state = Root
  /\ ret.all_children = <<2, 3>>
  /\ H_0[2] = 0
  /\ H_0[3] = 2
  /\ ret.chosen = <<1, 3>>
  /\ <<1, 2>> \notin called
  /\ get_children[2] # <<>>
  /\ ret.value # minmax_value(Last(Root), entry.depth, TRUE)

\* C9: find_best_move(root, depth) with depth < 0 ends in an error before
\* any successor is expanded and before any heuristic value is returned
C9_NegativeDepthFailsFast ==
  (entry.method = "find_best_move" /\ entry.depth < 0)
  => /\ expanded = {}
     /\ evaluated = {}
     /\ status # "returned"

(* ----------------------- the search, scheduled ------------------------ *)

\* a search that has started runs on: the interpreter takes the next step
Step ==
  \/ ReturnBase
  \/ ReturnNoChildren
  \/ Expand
  \/ Recurse
  \/ RecursionError
  \/ ReturnBest

FairSpec == Spec /\ WF_vars(Step)

\* every frame was called by the one below it, on one of its successors,
\* with L one less
DepthDiscipline ==
  /\ stack # <<>> => stack[1].L = entry.depth /\ stack[1].state = Root
  /\ \A k \in 2..Len(stack) :
        /\ stack[k].L = stack[k - 1].L - 1
        /\ stack[k].state \in Successors(stack[k - 1].state)

\* nothing more than entry.depth plies below the root is touched
PlyBound ==
  /\ Len(stack) <= entry.depth + 1
  /\ status # "RecursionError"
  /\ \A n \in called \cup expanded \cup evaluated : Len(n) - 1 <= entry.depth

\* grows with every step of a search: two per call made, one per state
\* expanded, one per frame that has returned
Progress == 2 * Cardinality(called) + Cardinality(expanded) - Len(stack)

\* C10: for every depth d >= 0 and every game, cyclic ones included, a
\* search by any variant terminates (it can always take a step until it
\* has returned, every step adds to Progress, and Progress counts states
\* within d plies of the root only), every recursive call has L exactly
\* one less than its caller, and no state more than d plies below the root
\* is called, expanded or evaluated
C10_DepthBoundedTermination ==
  /\ []DepthDiscipline
  /\ [](entry.depth >= 0 => PlyBound)
  /\ [](status = "running" => ENABLED Step)
  /\ [][Progress' > Progress]_vars

\* the same termination as a liveness property of the scheduled search
SearchTerminates ==
  (status = "running" /\ entry.depth >= 0) ~> (status = "returned")

\* C10's case: a depth-2 search of the ring, where play never ends, has
\* returned after evaluating states two plies below the root
C10_Witness ==
  /\ status = "returned"
  /\ get_children = Ring
  /\ is_final = {}
  /\ entry.depth = 2
  /\ \E n \in evaluated : Len(n) = 3
  /\ \A n \in called : Len(n) <= 3

\* the states minmax(state, L, ...) calls H_0 on, for L >= 0: the state of
\* every call that takes one of the two early returns
RECURSIVE minmax_evaluated(_, _)
minmax_evaluated(state, L) ==
  LET pos == Last(state)
      children == get_children[pos]
  IN IF L = 0 \/ pos \in is_final \/ children = <<>> THEN {state}
     ELSE UNION {minmax_evaluated(Append(state, children[k]), L - 1) :
                   k \in 1..Len(children)}

DefaultWindowCall ==
  entry.method \in {"fhabminmax", "fsabminmax"} /\ entry.depth >= 0

\* C11: fhabminmax(root, depth) and fsabminmax(root, depth), called with
\* their default window and maximizing flag, return the value minmax(root,
\* depth, True) returns, and call H_0 only on states minmax calls it on
C11_DefaultWindowEqualsMinmax ==
  /\ DefaultWindowCall
     => evaluated \subseteq minmax_evaluated(Root, entry.depth)
  /\ (DefaultWindowCall /\ status = "returned")
     => ret.value = minmax_value(Last(Root), entry.depth, TRUE)

\* C11's case: a depth-2 fail-hard search has returned minmax's value
\* after a cutoff spared it a state that minmax evaluates
C11_Witness ==
  /\ status = "returned"
  /\ entry.method = "fhabminmax"
  /\ entry.depth = 2
  /\ ret.value = minmax_value(Last(Root), entry.depth, TRUE)
  /\ \E n \in minmax_evaluated(Root, entry.depth) :
        Len(n) = 3 /\ n \notin evaluated

====
